---- MODULE Spec2Model ----
(***************************************************************************)
(* Model of the STM32 I2C bootloader client of src/code.py (class          *)
(* STMBootloader).  The session is a sequential program: a caller invokes  *)
(* one method at a time, every method is a sequence of transport writes,   *)
(* transport reads and wait_for_ack handshakes.  The model steps from one  *)
(* wait_for_ack call to the next; wait_for_ack itself is one action per    *)
(* status byte read.  The device (the bytes the transport hands back) is   *)
(* the environment: its status and data bytes are drawn from small sets.   *)
(***************************************************************************)
EXTENDS Integers, Sequences, FiniteSets, TLC

(* ------------------------------------------------------------------ *)
(* Wire constants                                                       *)
(* ------------------------------------------------------------------ *)
ADDRESS == 86

BUSY == 118

ACK == 121

NACK == 31

\* A payload buffer one byte shorter
BufSize_Short == 256 + 1

\* Size of the payload buffer: bytearray(258).
BufSize == 258

\* Default value of the end parameter of write().
WriteEnd == 256

\* erase_pages refuses more than this many pages.
MaxPages == 128

(* ------------------------------------------------------------------ *)
(* Bounds                                                               *)
(* ------------------------------------------------------------------ *)
\* The caller invokes at most this many methods on one session.
MaxCalls == 1

(* ------------------------------------------------------------------ *)
(* Byte arithmetic                                                      *)
(* ------------------------------------------------------------------ *)
Byte == 0..255

Min(a, b) == IF a < b THEN a ELSE b

RECURSIVE XorBits(_, _, _)
XorBits(a, b, n) ==
  IF n = 0 THEN 0
  ELSE (((a % 2) + (b % 2)) % 2) + (2 * XorBits(a \div 2, b \div 2, n - 1))

\* a ^ b on bytes: the operator applied to the values of its operands
Xor(a, b) ==
  LET table == [x \in Byte, y \in Byte |-> XorBits(x, y, 8)]
  IN  table[a, b]

RECURSIVE XorRange(_, _, _)
\* data[lo] ^ ... ^ data[hi] (1-based positions), evaluated by halves: XOR
\* is associative and commutative, so this is the value the loop of lines
\* 73-75 leaves in cs
XorRange(data, lo, hi) ==
  IF lo = hi THEN data[lo]
  ELSE LET mid == (lo + hi) \div 2
       IN  Xor(XorRange(data, lo, mid), XorRange(data, mid + 1, hi))

\* Python's data[:n] of a sequence
Slice(s, n) == SubSeq(s, 1, Min(n, Len(s)))

\* Python's data[k:]
Tail2(s, k) == IF k >= Len(s) THEN << >> ELSE SubSeq(s, k + 1, Len(s))

\* _checksum without its single-byte case
_checksum_AlwaysXor(data) == XorRange(data, 1, Len(data))

\* STMBootloader._checksum
_checksum(data) ==
  IF Len(data) = 1 THEN ((0 - data[1]) - 1) % 256
  ELSE XorRange(data, 1, Len(data))

\* A 32-bit value is kept as its two 16-bit halves <<high, low>>, that is
\* high * 65536 + low: the model checker's integers stop at 2^31 - 1.
Word32 == (0..65535) \X (0..65535)

\* struct.pack_into(">I", buf, 0, v)
PackI(b, v) ==
  [b EXCEPT ![1] = (v[1] \div 256) % 256,
            ![2] = v[1] % 256,
            ![3] = (v[2] \div 256) % 256,
            ![4] = v[2] % 256]

\* struct.pack_into(">H", buf, off, v), off a 0-based byte offset
PackH(b, off, v) ==
  [b EXCEPT ![off + 1] = (v \div 256) % 256,
            ![off + 2] = v % 256]

\* struct.unpack_from(">H", b, offset=off)[0]
UnpackH(b, off) == b[off + 1] * 256 + b[off + 2]

\* _pack_address packing the low half first
_pack_address_LowHalfFirst(b, address) ==
  LET p == PackI(b, <<address[2], address[1]>>)
  IN  [p EXCEPT ![5] = _checksum(Slice(p, 4))]

\* STMBootloader._pack_address
_pack_address(b, address) ==
  LET p == PackI(b, address)
  IN  [p EXCEPT ![5] = _checksum(Slice(p, 4))]

\* bus.writeto(ADDRESS, buf, end=end): the bytes put on the wire
writeto(b, end) == Slice(b, end)

\* bus.readfrom_into(ADDRESS, buf, end=count) with the device sending data
readfrom_into(b, data) ==
  [i \in 1..Len(b) |-> IF i <= Len(data) THEN data[i] ELSE b[i]]


(* ------------------------------------------------------------------ *)
(* Inputs: what callers pass and what the device sends                  *)
(* ------------------------------------------------------------------ *)
\* Status bytes the device may present to a handshake (0 is a byte that is
\* none of BUSY, ACK, NACK).
StatusBytes == {BUSY, ACK, NACK, 0}

\* count bytes sent by the device, following pattern p cyclically
DeviceBytes(p, count) == [i \in 1..count |-> p[((i - 1) % Len(p)) + 1]]

\* First-round answers to the get command: the length byte.
LengthBytes == {0, 7, 9, 255}

\* Second-round answers to the get command: count, version, opcodes.
\* Read with length 7 the first is the list 00 01 02 11 31 44 21, which has
\* neither 0x32 nor 0x45; the second has 0x32 within its first 9 bytes and
\* 0x45 in its last.
GetResponses ==
  { <<7, 18, 0, 1, 2, 17, 49, 68, 33>>,
    <<9, 18, 0, 1, 2, 17, 33, 49, 50, 68, 69>> }

VersionBytes == {18}

\* Answers to the get-id command: one leading byte, then the identifier.
IdResponses == { <<1, 4, 19>>, <<1, 0, 0>> }

\* Memory contents the device returns to read_memory.
MemoryPatterns == { <<173, 175, 0, 173>>, <<255>> }

\* 0x08000000 and 0xFFFFFFFF
Addresses == { <<2048, 0>>, <<65535, 65535>> }

Counts == {1, 4, 256, 257}

DataLens == {1, 4, 255, 256, 257}

DataPatterns == { <<173, 175, 0, 173>> }

BankNumbers == {0, 1, 2, 3}

PageLists ==
  { <<0>>, <<258, 3>>,
    [i \in 1..MaxPages |-> i - 1],
    [i \in 1..(MaxPages + 1) |-> i - 1] }

(* ------------------------------------------------------------------ *)
(* State                                                                *)
(* ------------------------------------------------------------------ *)
VARIABLES
  pc,                  \* where the session is: "new", "idle", "dead", or the
                       \* method and line of the wait_for_ack call in progress
  call,                \* the public method the caller invoked
  args,                \* its arguments and locals
  calls,               \* how many methods the caller has invoked
  waiting,             \* TRUE while wait_for_ack is polling
  busy,                \* the device answered BUSY to the current handshake
  ack,                 \* what the last wait_for_ack returned
  _buf,                \* self._buf
  supported_commands,  \* self.supported_commands
  protocol_version,    \* self.protocol_version
  _chip_id,            \* self._chip_id
  bus,                 \* transport operations of the call, in order: the
                       \* frames written, the data read, and the answer
                       \* that ended each handshake (a BUSY answer changes
                       \* nothing but `busy`)
  outcome,             \* how the call ended
  ret                  \* the value it returned (bytes, or <<int>>)

vars == <<pc, call, args, calls, waiting, busy, ack, _buf, supported_commands,
          protocol_version, _chip_id, bus, outcome, ret>>

NoArgs ==
  [address |-> <<0, 0>>, count |-> 0, data |-> << >>, pages |-> << >>,
   number |-> 0, command |-> 0, length |-> 0, b |-> << >>, v |-> 0]

WrittenEvent(frame) == [by |-> "write", bytes |-> frame]

StatusEvent(s) == [by |-> "wait_for_ack", bytes |-> <<s>>]

ReadEvent(data) == [by |-> "_read", bytes |-> data]

\* __init__ up to line 15: the buffer exists, nothing was sent yet.
Init ==
  /\ pc = "new"
  /\ call = "__init__"
  /\ args = NoArgs
  /\ calls = 0
  /\ waiting = FALSE
  /\ busy = FALSE
  /\ ack = FALSE
  /\ _buf = [i \in 1..BufSize |-> 0]
  /\ supported_commands = << >>
  /\ protocol_version = 0
  /\ _chip_id = 0
  /\ bus = << >>
  /\ outcome = "running"
  /\ ret = << >>

(* ------------------------------------------------------------------ *)
(* Building blocks of the methods                                       *)
(* ------------------------------------------------------------------ *)
\* self.write(frame, end) with no handshake after it
WriteThenWait_NoWait(trace, b, frame, end, at) ==
  /\ bus' = Append(trace, WrittenEvent(writeto(frame, end)))
  /\ _buf' = b
  /\ waiting' = FALSE
  /\ busy' = FALSE
  /\ pc' = at

\* self.write(frame, end); self.wait_for_ack() entered at line `at`:
\* the frame goes out, line 60 stores BUSY in the buffer, polling starts.
WriteThenWait(trace, b, frame, end, at) ==
  /\ bus' = Append(trace, WrittenEvent(writeto(frame, end)))
  /\ _buf' = [b EXCEPT ![1] = BUSY]
  /\ waiting' = TRUE
  /\ busy' = FALSE
  /\ pc' = at

\* self._read(count) answered with data; self.wait_for_ack() entered at `at`
ReadThenWait(data, at) ==
  /\ bus' = Append(bus, ReadEvent(data))
  /\ _buf' = [readfrom_into(_buf, data) EXCEPT ![1] = BUSY]
  /\ waiting' = TRUE
  /\ busy' = FALSE
  /\ pc' = at

\* the method returns value r
Return(kind, r) ==
  /\ pc' = "idle"
  /\ outcome' = kind
  /\ ret' = r
  /\ waiting' = FALSE
  /\ UNCHANGED busy

\* the method raises: nothing in the module (lines 168-183) catches an
\* exception, so the program ends there
Raise(exc) ==
  /\ pc' = "dead"
  /\ outcome' = exc
  /\ waiting' = FALSE
  /\ UNCHANGED <<busy, ret>>

Bool(x) == IF x THEN "True" ELSE "False"

\* the caller starts method m with arguments a, as one of at most `limit`
\* calls on the session
BeginWithin(limit, m, a) ==
  /\ pc = "idle"
  /\ calls < limit
  /\ calls' = calls + 1
  /\ call' = m
  /\ args' = a

Begin(m, a) == BeginWithin(MaxCalls, m, a)

\* the first frame of a method: a fresh transport record, then the handshake
Start(frame, at) ==
  /\ WriteThenWait(<< >>, _buf, frame, WriteEnd, at)
  /\ outcome' = "running"
  /\ ack' = FALSE
  /\ UNCHANGED ret

\* the method ends before it touched the transport
Immediate(kind, r) ==
  /\ pc' = "idle"
  /\ outcome' = kind
  /\ ret' = r
  /\ bus' = << >>
  /\ ack' = FALSE
  /\ busy' = FALSE
  /\ UNCHANGED <<waiting, _buf>>

\* the method raises before it touched the transport
ImmediateRaise(exc) ==
  /\ pc' = "dead"
  /\ outcome' = exc
  /\ bus' = << >>
  /\ ack' = FALSE
  /\ busy' = FALSE
  /\ UNCHANGED <<waiting, _buf, ret>>

\* the wait_for_ack call at line `at` has returned
After(at) == pc = at /\ ~waiting

(* ------------------------------------------------------------------ *)
(* wait_for_ack: one status byte read per step                          *)
(* ------------------------------------------------------------------ *)
\* wait_for_ack leaving its loop at the first BUSY, as if NACK had come
wait_for_ack_GivesUp ==
  /\ waiting
  /\ \E s \in StatusBytes :
       /\ _buf' = [_buf EXCEPT ![1] = s]
       /\ IF _buf'[1] = BUSY
            THEN /\ busy' = TRUE
                 /\ waiting' = FALSE
                 /\ ack' = FALSE
                 /\ UNCHANGED <<pc, outcome, ret, bus>>
            ELSE /\ bus' = Append(bus, StatusEvent(s))
                 /\ IF _buf'[1] \notin {NACK, ACK}
                      THEN Raise("RuntimeError") /\ UNCHANGED ack
                      ELSE /\ waiting' = FALSE
                           /\ ack' = (_buf'[1] = ACK)
                           /\ UNCHANGED <<pc, outcome, ret, busy>>
  /\ UNCHANGED <<call, args, calls, supported_commands, protocol_version,
                 _chip_id>>

\* wait_for_ack taking a byte it does not know for a NACK
wait_for_ack_UnknownIsNack ==
  /\ waiting
  /\ \E s \in StatusBytes :
       /\ _buf' = [_buf EXCEPT ![1] = s]
       /\ IF _buf'[1] = BUSY
            THEN /\ busy' = TRUE
                 /\ UNCHANGED <<pc, waiting, ack, outcome, ret, bus>>
            ELSE /\ bus' = Append(bus, StatusEvent(s))
                 /\ waiting' = FALSE
                 /\ ack' = (_buf'[1] = ACK)
                 /\ UNCHANGED <<pc, outcome, ret, busy>>
  /\ UNCHANGED <<call, args, calls, supported_commands, protocol_version,
                 _chip_id>>

\* wait_for_ack without the check of lines 63-64
wait_for_ack_NoRaise ==
  /\ waiting
  /\ \E s \in StatusBytes :
       /\ _buf' = [_buf EXCEPT ![1] = s]
       /\ IF _buf'[1] = BUSY
            THEN /\ busy' = TRUE
                 /\ UNCHANGED <<pc, waiting, ack, outcome, ret, bus>>
            ELSE /\ bus' = Append(bus, StatusEvent(s))
                 /\ waiting' = FALSE
                 /\ ack' = (_buf'[1] = ACK)
                 /\ UNCHANGED <<pc, outcome, ret, busy>>
  /\ UNCHANGED <<call, args, calls, supported_commands, protocol_version,
                 _chip_id>>

\* lines 60-65.  A BUSY answer leaves the buffer as line 60 set it and
\* the loop goes on; any other answer ends the loop.
wait_for_ack ==
  /\ waiting
  /\ \E s \in StatusBytes :
       /\ _buf' = [_buf EXCEPT ![1] = s]
       /\ IF _buf'[1] = BUSY
            THEN /\ busy' = TRUE
                 /\ UNCHANGED <<pc, waiting, ack, outcome, ret, bus>>
          ELSE /\ bus' = Append(bus, StatusEvent(s))
               /\ IF _buf'[1] \notin {NACK, ACK}
                    THEN Raise("RuntimeError") /\ UNCHANGED ack
                    ELSE /\ waiting' = FALSE
                         /\ ack' = (_buf'[1] = ACK)
                         /\ UNCHANGED <<pc, outcome, ret, busy>>
  /\ UNCHANGED <<call, args, calls, supported_commands, protocol_version,
                 _chip_id>>

(* ------------------------------------------------------------------ *)
(* __init__: get() twice over, then get_version()                       *)
(* ------------------------------------------------------------------ *)
\* line 17 calls get(); lines 35-36
get_35 ==
  /\ pc = "new"
  /\ WriteThenWait(bus, _buf, <<0, 255>>, WriteEnd, "get_36")
  /\ UNCHANGED <<call, args, calls, ack, supported_commands, protocol_version,
                 _chip_id, outcome, ret>>

\* lines 37-39: the first answer gives the length
get_37 ==
  /\ After("get_36")
  /\ \E d \in LengthBytes :
       /\ ReadThenWait(<<d>>, "get_39")
       /\ args' = [args EXCEPT !.length = d]
  /\ UNCHANGED <<call, calls, ack, supported_commands, protocol_version,
                 _chip_id, outcome, ret>>

\* lines 42-43: the same command again
get_42 ==
  /\ After("get_39")
  /\ WriteThenWait(bus, _buf, <<0, 255>>, WriteEnd, "get_43")
  /\ UNCHANGED <<call, args, calls, ack, supported_commands, protocol_version,
                 _chip_id, outcome, ret>>

\* lines 44-45: b = bytes(self._read(length + 2)), a copy
get_44 ==
  /\ After("get_43")
  /\ \E p \in GetResponses :
       LET data == DeviceBytes(p, args.length + 2)
       IN  /\ ReadThenWait(data, "get_45")
           /\ args' = [args EXCEPT !.b = Slice(readfrom_into(_buf, data),
                                               args.length + 2)]
  /\ UNCHANGED <<call, calls, ack, supported_commands, protocol_version,
                 _chip_id, outcome, ret>>

\* line 17 keeping the whole answer of get()
get_version_27_KeepsHeader ==
  /\ After("get_45")
  /\ supported_commands' = args.b
  /\ WriteThenWait(bus, _buf, <<1, 254>>, WriteEnd, "get_version_28")
  /\ UNCHANGED <<call, args, calls, ack, protocol_version, _chip_id, outcome,
                 ret>>

\* line 46 returns b, line 17 strips two bytes, line 20 calls get_version()
get_version_27 ==
  /\ After("get_45")
  /\ supported_commands' = Tail2(args.b, 2)
  /\ WriteThenWait(bus, _buf, <<1, 254>>, WriteEnd, "get_version_28")
  /\ UNCHANGED <<call, args, calls, ack, protocol_version, _chip_id, outcome,
                 ret>>

\* lines 29-30
get_version_29 ==
  /\ After("get_version_28")
  /\ \E d \in VersionBytes :
       /\ ReadThenWait(<<d>>, "get_version_30")
       /\ args' = [args EXCEPT !.v = d]
  /\ UNCHANGED <<call, calls, ack, supported_commands, protocol_version,
                 _chip_id, outcome, ret>>

\* line 31 returns v; lines 20-23 finish __init__
get_version_31 ==
  /\ After("get_version_30")
  /\ protocol_version' = args.v
  /\ _chip_id' = 0
  /\ Return("constructed", << >>)
  /\ UNCHANGED <<call, args, calls, ack, _buf, supported_commands, bus>>

(* ------------------------------------------------------------------ *)
(* chip_id                                                              *)
(* ------------------------------------------------------------------ *)
\* chip_id asking the device every time
chip_id_within_NoCache(limit) ==
  /\ BeginWithin(limit, "chip_id", NoArgs)
  /\ Start(<<2, 253>>, "chip_id_53")
  /\ UNCHANGED <<supported_commands, protocol_version, _chip_id>>

\* lines 50-53
chip_id_within(limit) ==
  /\ BeginWithin(limit, "chip_id", NoArgs)
  /\ IF _chip_id # 0
       THEN Immediate("int", <<_chip_id>>)
       ELSE Start(<<2, 253>>, "chip_id_53")
  /\ UNCHANGED <<supported_commands, protocol_version, _chip_id>>

chip_id == chip_id_within(MaxCalls)

\* lines 54-56: the identifier is stored before the second handshake
chip_id_54 ==
  /\ After("chip_id_53")
  /\ \E p \in IdResponses :
       LET data == DeviceBytes(p, 3)
       IN  /\ ReadThenWait(data, "chip_id_56")
           /\ _chip_id' = UnpackH(Slice(readfrom_into(_buf, data), 3), 1)
  /\ UNCHANGED <<call, args, calls, ack, supported_commands, protocol_version,
                 outcome, ret>>

\* line 57
chip_id_57 ==
  /\ After("chip_id_56")
  /\ Return("int", <<_chip_id>>)
  /\ UNCHANGED <<call, args, calls, ack, _buf, supported_commands,
                 protocol_version, _chip_id, bus>>


(* ------------------------------------------------------------------ *)
(* read_memory                                                          *)
(* ------------------------------------------------------------------ *)
\* lines 83-84
read_memory_within(limit, addresses, counts) ==
  /\ \E address \in addresses, count \in counts :
       BeginWithin(limit, "read_memory",
                   [NoArgs EXCEPT !.address = address, !.count = count])
  /\ Start(<<17, 238>>, "read_memory_84")
  /\ UNCHANGED <<supported_commands, protocol_version, _chip_id>>

read_memory == read_memory_within(MaxCalls, Addresses, Counts)

\* lines 85-87: the result of the handshake of line 84 is not looked at
read_memory_85 ==
  /\ After("read_memory_84")
  /\ LET b == _pack_address(_buf, args.address)
     IN  WriteThenWait(bus, b, b, 5, "read_memory_87")
  /\ UNCHANGED <<call, args, calls, ack, supported_commands, protocol_version,
                 _chip_id, outcome, ret>>

\* lines 87-92.  Storing count - 1 outside 0..255 in the buffer raises
\* ValueError on builds that check the value and keeps the low byte on
\* builds that do not.
read_memory_88 ==
  /\ After("read_memory_87")
  /\ IF ~ack
       THEN Return("bytes", << >>) /\ UNCHANGED <<_buf, bus>>
       ELSE \/ /\ (args.count - 1) \notin Byte
               /\ Raise("ValueError")
               /\ UNCHANGED <<_buf, bus>>
            \/ LET b0 == [_buf EXCEPT ![1] = (args.count - 1) % 256]
                   b1 == [b0 EXCEPT ![2] = _checksum(Slice(b0, 1))]
               IN  /\ WriteThenWait(bus, b1, b1, 2, "read_memory_92")
                   /\ UNCHANGED <<outcome, ret>>
  /\ UNCHANGED <<call, args, calls, ack, supported_commands, protocol_version,
                 _chip_id>>

\* line 93 reading one byte less than asked for
read_memory_93_OneShort ==
  /\ After("read_memory_92")
  /\ \E p \in MemoryPatterns :
       LET data == DeviceBytes(p, args.count - 1)
       IN  /\ bus' = Append(bus, ReadEvent(data))
           /\ _buf' = readfrom_into(_buf, data)
           /\ Return("bytes", Slice(_buf', args.count - 1))
  /\ UNCHANGED <<call, args, calls, ack, supported_commands, protocol_version,
                 _chip_id>>

\* line 93: return self._read(count), a view of the first count bytes
read_memory_93 ==
  /\ After("read_memory_92")
  /\ \E p \in MemoryPatterns :
       LET data == DeviceBytes(p, args.count)
       IN  /\ bus' = Append(bus, ReadEvent(data))
           /\ _buf' = readfrom_into(_buf, data)
           /\ Return("bytes", Slice(_buf', args.count))
  /\ UNCHANGED <<call, args, calls, ack, supported_commands, protocol_version,
                 _chip_id>>

(* ------------------------------------------------------------------ *)
(* go                                                                   *)
(* ------------------------------------------------------------------ *)
\* lines 98-99
go_within(limit, addresses) ==
  /\ \E address \in addresses :
       BeginWithin(limit, "go", [NoArgs EXCEPT !.address = address])
  /\ Start(<<33, 222>>, "go_99")
  /\ UNCHANGED <<supported_commands, protocol_version, _chip_id>>

go == go_within(MaxCalls, Addresses)

\* lines 100-102
go_100 ==
  /\ After("go_99")
  /\ LET b == _pack_address(_buf, args.address)
     IN  WriteThenWait(bus, b, b, 5, "go_102")
  /\ UNCHANGED <<call, args, calls, ack, supported_commands, protocol_version,
                 _chip_id, outcome, ret>>

\* line 102 returns what wait_for_ack returned
go_102 ==
  /\ After("go_102")
  /\ Return(Bool(ack), << >>)
  /\ UNCHANGED <<call, args, calls, ack, _buf, supported_commands,
                 protocol_version, _chip_id, bus>>

(* ------------------------------------------------------------------ *)
(* write_memory                                                         *)
(* ------------------------------------------------------------------ *)
\* x in self.supported_commands
Supports(x) == \E i \in 1..Len(supported_commands) : supported_commands[i] = x

\* the write opcode chosen by the erase capability byte
WriteOpcode_ByEraseByte == IF Supports(69) THEN <<50, 205>> ELSE <<49, 206>>

\* lines 107-110: the opcode frame of write_memory
WriteOpcode == IF Supports(50) THEN <<50, 205>> ELSE <<49, 206>>

\* lines 126-129 and 146-149: the opcode frame of the erase methods
EraseOpcode == IF Supports(69) THEN <<69, 186>> ELSE <<68, 187>>

\* lines 107-111
write_memory_within(limit, addresses, lens) ==
  /\ \E address \in addresses, n \in lens, p \in DataPatterns :
       BeginWithin(limit, "write_memory",
                   [NoArgs EXCEPT !.address = address,
                                  !.data = DeviceBytes(p, n)])
  /\ Start(WriteOpcode, "write_memory_111")
  /\ UNCHANGED <<supported_commands, protocol_version, _chip_id>>

write_memory == write_memory_within(MaxCalls, Addresses, DataLens)

\* lines 112-114: the result of the handshake of line 111 is not looked at
write_memory_112 ==
  /\ After("write_memory_111")
  /\ LET b == _pack_address(_buf, args.address)
     IN  WriteThenWait(bus, b, b, 5, "write_memory_114")
  /\ UNCHANGED <<call, args, calls, ack, supported_commands, protocol_version,
                 _chip_id, outcome, ret>>

\* lines 116-119: the payload in the buffer, for end < BufSize
DataPayload(b, data) ==
  LET end == Len(data) + 1
      b0  == [b EXCEPT ![1] = (Len(data) - 1) % 256]
      b1  == [i \in 1..Len(b) |->
                IF i >= 2 /\ i <= end THEN data[i - 1] ELSE b0[i]]
  IN  [b1 EXCEPT ![end + 1] = _checksum(Slice(b1, end))]

\* lines 114-121.  Line 116 raises ValueError for a length byte outside
\* 0..255 on builds that check the value; line 119 raises IndexError when
\* end is past the buffer.  Line 120 writes self._buf[:end+1] through
\* write(), whose end defaults to WriteEnd.
write_memory_115 ==
  /\ After("write_memory_114")
  /\ LET end == Len(args.data) + 1
     IN  IF ~ack
           THEN Return("False", << >>) /\ UNCHANGED <<_buf, bus>>
           ELSE \/ /\ (Len(args.data) - 1) \notin Byte
                   /\ Raise("ValueError")
                   /\ UNCHANGED <<_buf, bus>>
                \/ /\ end >= BufSize
                   /\ Raise("IndexError")
                   /\ _buf' = [i \in 1..BufSize |->
                                 IF i = 1 THEN (Len(args.data) - 1) % 256
                                 ELSE args.data[i - 1]]
                   /\ UNCHANGED bus
                \/ /\ end < BufSize
                   /\ LET b == DataPayload(_buf, args.data)
                      IN  WriteThenWait(bus, b, Slice(b, end + 1), WriteEnd,
                                        "write_memory_121")
                   /\ UNCHANGED <<outcome, ret>>
  /\ UNCHANGED <<call, args, calls, ack, supported_commands, protocol_version,
                 _chip_id>>

\* lines 121-123
write_memory_121 ==
  /\ After("write_memory_121")
  /\ Return(Bool(ack), << >>)
  /\ UNCHANGED <<call, args, calls, ack, _buf, supported_commands,
                 protocol_version, _chip_id, bus>>


(* ------------------------------------------------------------------ *)
(* _special_erase, erase_all, erase_bank                                *)
(* ------------------------------------------------------------------ *)
\* line 137 calls _special_erase(0xffff); lines 126-130
erase_all_within(limit) ==
  /\ BeginWithin(limit, "erase_all", [NoArgs EXCEPT !.command = 65535])
  /\ Start(EraseOpcode, "_special_erase_130")
  /\ UNCHANGED <<supported_commands, protocol_version, _chip_id>>

erase_all == erase_all_within(MaxCalls)

\* line 140 asserts the bank number, line 141 calls
\* _special_erase(0xfffc + number); lines 126-130
erase_bank ==
  /\ \E number \in BankNumbers :
       /\ Begin("erase_bank",
                [NoArgs EXCEPT !.number = number, !.command = 65532 + number])
       /\ IF number \notin {1, 2}
            THEN ImmediateRaise("AssertionError")
            ELSE Start(EraseOpcode, "_special_erase_130")
  /\ UNCHANGED <<supported_commands, protocol_version, _chip_id>>

\* the payload with the checksum of line 132 left out
SpecialPayload_NoChecksum(b, command) == PackH(b, 0, command)

\* lines 131-132: the reserved code and its checksum in the buffer
SpecialPayload(b, command) ==
  LET p == PackH(b, 0, command)
  IN  [p EXCEPT ![3] = _checksum(Slice(p, 2))]

\* lines 131-134: the result of the handshake of line 130 is not looked at
_special_erase_131 ==
  /\ After("_special_erase_130")
  /\ LET b == SpecialPayload(_buf, args.command)
     IN  WriteThenWait(bus, b, Slice(b, 3), WriteEnd, "_special_erase_134")
  /\ UNCHANGED <<call, args, calls, ack, supported_commands, protocol_version,
                 _chip_id, outcome, ret>>

\* line 134 returns what wait_for_ack returned
_special_erase_134 ==
  /\ After("_special_erase_134")
  /\ Return(Bool(ack), << >>)
  /\ UNCHANGED <<call, args, calls, ack, _buf, supported_commands,
                 protocol_version, _chip_id, bus>>

(* ------------------------------------------------------------------ *)
(* erase_pages                                                          *)
(* ------------------------------------------------------------------ *)
\* lines 144-150
erase_pages_within(limit, lists) ==
  /\ \E pages \in lists :
       /\ BeginWithin(limit, "erase_pages", [NoArgs EXCEPT !.pages = pages])
       /\ IF Len(pages) > MaxPages
            THEN Immediate("False", << >>)
            ELSE Start(EraseOpcode, "erase_pages_150")
  /\ UNCHANGED <<supported_commands, protocol_version, _chip_id>>

\* erase_pages with the limit of line 144 off by one
erase_pages_OffByOne ==
  /\ \E pages \in PageLists :
       /\ Begin("erase_pages", [NoArgs EXCEPT !.pages = pages])
       /\ IF Len(pages) > MaxPages + 1
            THEN Immediate("False", << >>)
            ELSE Start(EraseOpcode, "erase_pages_150")
  /\ UNCHANGED <<supported_commands, protocol_version, _chip_id>>

erase_pages == erase_pages_within(MaxCalls, PageLists)

\* lines 151-154: the page count minus one, as a 16-bit value
erase_pages_151 ==
  /\ After("erase_pages_150")
  /\ LET b == SpecialPayload(_buf, Len(args.pages) - 1)
     IN  WriteThenWait(bus, b, Slice(b, 3), WriteEnd, "erase_pages_154")
  /\ UNCHANGED <<call, args, calls, ack, supported_commands, protocol_version,
                 _chip_id, outcome, ret>>

\* lines 156-157: for i, page in enumerate(pages):
\*                    struct.pack_into(">H", self._buf, i * 2, page)
\* Page i (0-based) lands in the two bytes at 2i and 2i + 1.
PackPages(b, pages) ==
  [k \in 1..Len(b) |->
     IF k > 2 * Len(pages) THEN b[k]
     ELSE IF k % 2 = 1 THEN (pages[(k + 1) \div 2] \div 256) % 256
     ELSE pages[k \div 2] % 256]

\* lines 156-159: the page list and its checksum in the buffer
PagesPayload(b, pages) ==
  LET l == 2 * Len(pages)
      p == PackPages(b, pages)
  IN  [p EXCEPT ![l + 1] = _checksum(Slice(p, l))]

\* line 160: the slice of the buffer handed to write()
PagesFrame(b, pages) == Slice(b, 2 * Len(pages))

\* lines 154-161
erase_pages_155 ==
  /\ After("erase_pages_154")
  /\ IF ~ack
       THEN Return("False", << >>) /\ UNCHANGED <<_buf, bus>>
       ELSE /\ LET b == PagesPayload(_buf, args.pages)
               IN  WriteThenWait(bus, b, PagesFrame(b, args.pages), WriteEnd,
                                 "erase_pages_161")
            /\ UNCHANGED <<outcome, ret>>
  /\ UNCHANGED <<call, args, calls, ack, supported_commands, protocol_version,
                 _chip_id>>

\* line 161 returns what wait_for_ack returned
erase_pages_161 ==
  /\ After("erase_pages_161")
  /\ Return(Bool(ack), << >>)
  /\ UNCHANGED <<call, args, calls, ack, _buf, supported_commands,
                 protocol_version, _chip_id, bus>>

(* ------------------------------------------------------------------ *)
(* Specification                                                        *)
(* ------------------------------------------------------------------ *)
Next ==
  \/ wait_for_ack
  \/ get_35
  \/ get_37
  \/ get_42
  \/ get_44
  \/ get_version_27
  \/ get_version_29
  \/ get_version_31
  \/ chip_id
  \/ chip_id_54
  \/ chip_id_57
  \/ read_memory
  \/ read_memory_85
  \/ read_memory_88
  \/ read_memory_93
  \/ go
  \/ go_100
  \/ go_102
  \/ write_memory
  \/ write_memory_112
  \/ write_memory_115
  \/ write_memory_121
  \/ erase_all
  \/ erase_bank
  \/ _special_erase_131
  \/ _special_erase_134
  \/ erase_pages
  \/ erase_pages_151
  \/ erase_pages_155
  \/ erase_pages_161

Spec == Init /\ [][Next]_vars


(* ------------------------------------------------------------------ *)
(* A session used for several calls in a row, as lines 168-183 do        *)
(* ------------------------------------------------------------------ *)
\* The caller invokes at most this many methods on the session.
MaxSeq == 3

\* Arguments of the calls of lines 170-181.
SessionAddresses == {<<2048, 0>>}

SessionCounts == {4}

SessionDataLens == {4}

SessionPageLists == {<<0>>}

\* one step of a session on which at most `limit` of these calls are made
SessionNext(limit) ==
  \/ wait_for_ack
  \/ get_35
  \/ get_37
  \/ get_42
  \/ get_44
  \/ get_version_27
  \/ get_version_29
  \/ get_version_31
  \/ chip_id_within(limit)
  \/ chip_id_54
  \/ chip_id_57
  \/ read_memory_within(limit, SessionAddresses, SessionCounts)
  \/ read_memory_85
  \/ read_memory_88
  \/ read_memory_93
  \/ go_within(limit, SessionAddresses)
  \/ go_100
  \/ go_102
  \/ write_memory_within(limit, SessionAddresses, SessionDataLens)
  \/ write_memory_112
  \/ write_memory_115
  \/ write_memory_121
  \/ erase_all_within(limit)
  \/ _special_erase_131
  \/ _special_erase_134
  \/ erase_pages_within(limit, SessionPageLists)
  \/ erase_pages_151
  \/ erase_pages_155
  \/ erase_pages_161

NextSeq == SessionNext(MaxSeq)

SpecSeq == Init /\ [][NextSeq]_vars

(* ------------------------------------------------------------------ *)
(* Such a session with a device that does not stay BUSY for ever        *)
(* ------------------------------------------------------------------ *)
\* The caller invokes at most this many methods on such a session.
MaxLive == 1

NextLive == SessionNext(MaxLive)

\* line 62 reads a byte other than BUSY: the loop of lines 61-62 ends
Answer == wait_for_ack /\ _buf'[1] # BUSY

\* the interpreter runs the next statements of the method it is in
Continue ==
  \/ get_35
  \/ get_37
  \/ get_42
  \/ get_44
  \/ get_version_27
  \/ get_version_29
  \/ get_version_31
  \/ chip_id_54
  \/ chip_id_57
  \/ read_memory_85
  \/ read_memory_88
  \/ read_memory_93
  \/ go_100
  \/ go_102
  \/ write_memory_112
  \/ write_memory_115
  \/ write_memory_121
  \/ _special_erase_131
  \/ _special_erase_134
  \/ erase_pages_151
  \/ erase_pages_155
  \/ erase_pages_161

SpecLive ==
  Init /\ [][NextLive]_vars /\ WF_vars(Answer) /\ WF_vars(Continue)

(* ------------------------------------------------------------------ *)
(* _checksum and _pack_address on their own                             *)
(* ------------------------------------------------------------------ *)
\* Longest byte string handed to _checksum here.
MaxLen == 3

\* Byte values the strings are made of.
ChecksumBytes == {0, 1, 128, 255}

ChecksumInputs ==
  UNION {[1..n -> ChecksumBytes] : n \in 1..MaxLen}

\* 16-bit halves of the addresses packed here: 0x00000000 and 0xFFFFFFFF
\* are among them, and 0x08000000.
AddressHalves == {0, 2048, 65535}

PackInputs == AddressHalves \X AddressHalves

\* A session whose buffer is still clear, with the arguments about to be
\* handed to _checksum and _pack_address.
InitPure ==
  /\ pc = "pure"
  /\ call = "none"
  /\ \E d \in ChecksumInputs, a \in PackInputs :
       args = [NoArgs EXCEPT !.data = d, !.address = a]
  /\ calls = 0
  /\ waiting = FALSE
  /\ busy = FALSE
  /\ ack = FALSE
  /\ _buf = [i \in 1..BufSize |-> 0]
  /\ supported_commands = << >>
  /\ protocol_version = 0
  /\ _chip_id = 0
  /\ bus = << >>
  /\ outcome = "running"
  /\ ret = << >>

\* lines 70-76: self._checksum(data)
checksum_70 ==
  /\ pc = "pure"
  /\ call' = "_checksum"
  /\ ret' = <<_checksum(args.data)>>
  /\ outcome' = "int"
  /\ pc' = "checksum_76"
  /\ UNCHANGED <<args, calls, waiting, busy, ack, _buf, supported_commands,
                 protocol_version, _chip_id, bus>>

\* lines 78-80: self._pack_address(address)
pack_address_78 ==
  /\ pc = "pure"
  /\ call' = "_pack_address"
  /\ _buf' = _pack_address(_buf, args.address)
  /\ pc' = "pack_address_80"
  /\ UNCHANGED <<args, calls, waiting, busy, ack, supported_commands,
                 protocol_version, _chip_id, bus, outcome, ret>>

\* lines 86, 98, 113: self.write(self._buf, end=5) right after packing
write_address_86 ==
  /\ pc = "pack_address_80"
  /\ bus' = Append(bus, WrittenEvent(writeto(_buf, 5)))
  /\ pc' = "write_address_86"
  /\ UNCHANGED <<call, args, calls, waiting, busy, ack, _buf,
                 supported_commands, protocol_version, _chip_id, outcome, ret>>

NextPure ==
  \/ checksum_70
  \/ pack_address_78
  \/ write_address_86

SpecPure == InitPure /\ [][NextPure]_vars

(* ------------------------------------------------------------------ *)
(* Reading the transport record                                         *)
(* ------------------------------------------------------------------ *)
IsWrite(e) == e.by = "write"

\* the frames written by the call so far, in order
Frames == SelectSeq(bus, IsWrite)

\* how many frames were written before position i of the record
FramesBefore(i) == Len(SelectSeq(SubSeq(bus, 1, i), IsWrite))

\* the call has ended (returned or raised)
Ended == pc \in {"idle", "dead"} /\ call # "__init__"

\* bit k of the XOR of all bytes of s: the parity of the bytes that have it
XorBit(s, k) ==
  Cardinality({i \in DOMAIN s : (s[i] \div (2 ^ k)) % 2 = 1}) % 2

\* the XOR of all bytes of s, bit by bit
XorAll(s) ==
  XorBit(s, 0) + 2 * XorBit(s, 1) + 4 * XorBit(s, 2) + 8 * XorBit(s, 3)
  + 16 * XorBit(s, 4) + 32 * XorBit(s, 5) + 64 * XorBit(s, 6)
  + 128 * XorBit(s, 7)

(* ------------------------------------------------------------------ *)
(* Claims                                                               *)
(* ------------------------------------------------------------------ *)

\* C1: in write_memory, once a handshake has ended in NACK no further frame
\* of the call is written, and the call returns False.
C1_WriteMemoryStopsAtNack ==
  call = "write_memory" =>
    \A i \in DOMAIN bus :
      bus[i] = StatusEvent(NACK) =>
        /\ \A j \in DOMAIN bus : j > i => ~IsWrite(bus[j])
        /\ pc = "idle" => outcome = "False"

\* C2: in read_memory, a NACK to the opcode frame or to the address frame
\* ends the call with an empty result: no frame is written and no data is
\* read after it.
C2_ReadMemoryStopsAtNack ==
  call = "read_memory" =>
    \A i \in DOMAIN bus :
      (bus[i] = StatusEvent(NACK) /\ FramesBefore(i) \in {1, 2}) =>
        /\ i = Len(bus)
        /\ pc = "idle" => (outcome = "bytes" /\ ret = << >>)

\* C3: in go, erase_all, erase_bank and erase_pages, a NACK to the opcode
\* frame ends the call with False and nothing more is written.
C3_OpcodeNackStops ==
  (call \in {"go", "erase_all", "erase_bank", "erase_pages"}
     /\ Len(bus) >= 2 /\ bus[2] = StatusEvent(NACK)) =>
    /\ Len(bus) = 2
    /\ pc = "idle" => outcome = "False"

\* the frame C4 describes: length byte, the data, XOR of all of these
ExpectedDataFrame(data) ==
  LET body == <<Len(data) - 1>> \o data
  IN  body \o <<XorAll(body)>>

\* C4: for 1..256 data bytes the third frame of write_memory is the length
\* byte len(data) - 1, the data, and the XOR of those, all len(data) + 2
\* bytes; the call returns True exactly when the handshake after it is ACK.
C4_WriteMemoryDataFrame ==
  (call = "write_memory" /\ Len(args.data) \in 1..256 /\ Len(Frames) = 3) =>
    /\ Frames[3].bytes = ExpectedDataFrame(args.data)
    /\ pc = "idle" =>
         outcome = Bool(bus[Len(bus)] = StatusEvent(ACK))

\* the frame C5 describes: the pages as big-endian 16-bit values, then the
\* XOR of those bytes
ExpectedPagesFrame(pages) ==
  LET packed == [k \in 1..(2 * Len(pages)) |->
                   IF k % 2 = 1 THEN pages[(k + 1) \div 2] \div 256
                   ELSE pages[k \div 2] % 256]
  IN  packed \o <<XorAll(packed)>>

\* C5: for 1..128 pages the third frame of erase_pages is every page as a
\* big-endian 16-bit value followed by the XOR of those bytes, 2n + 1 bytes;
\* the call returns the outcome of the handshake after it.
C5_ErasePagesListFrame ==
  (call = "erase_pages" /\ Len(args.pages) \in 1..MaxPages
     /\ Len(Frames) = 3) =>
    /\ Frames[3].bytes = ExpectedPagesFrame(args.pages)
    /\ pc = "idle" =>
         outcome = Bool(bus[Len(bus)] = StatusEvent(ACK))

\* C6: read_memory with count outside 1..256 and write_memory with a data
\* length outside 1..256 end in an error with nothing written to or read
\* from the transport.
C6_LengthsRejectedBeforeTraffic ==
  (\/ call = "read_memory" /\ args.count \notin 1..256
   \/ call = "write_memory" /\ Len(args.data) \notin 1..256) =>
    /\ bus = << >>
    /\ ~waiting
    /\ outcome \in {"ValueError", "IndexError"}

\* C7: erase_pages with more than 128 pages returns False and neither writes
\* to nor reads from the transport.
C7_TooManyPagesNoTraffic ==
  (call = "erase_pages" /\ Len(args.pages) > 128) =>
    /\ pc = "idle"
    /\ outcome = "False"
    /\ bus = << >>
    /\ ~waiting

C7_Witness ==
  /\ call = "erase_pages"
  /\ Len(args.pages) = 129
  /\ pc = "idle"
  /\ outcome = "False"

\* C8: erase_bank(n) with n outside {1, 2} fails its assertion with nothing
\* written or read; with n = 1 or 2 its second frame is FF FD 02 or FF FE 01
\* (0xFFFC + n big-endian, then the XOR of the two bytes), and the second
\* frame of erase_all is FF FF 00; an erase that ends without an error has
\* sent that frame.
C8_SpecialEraseCodes ==
  /\ (call = "erase_bank" /\ args.number \notin {1, 2}) =>
       /\ outcome = "AssertionError"
       /\ pc = "dead"
       /\ bus = << >>
       /\ ~waiting
  /\ (call = "erase_bank" /\ args.number \in {1, 2} /\ Len(Frames) >= 2) =>
       Frames[2].bytes = <<255, 252 + args.number, 3 - args.number>>
  /\ (call = "erase_all" /\ Len(Frames) >= 2) =>
       Frames[2].bytes = <<255, 255, 0>>
  /\ (call \in {"erase_all", "erase_bank"} /\ pc = "idle") =>
       Len(Frames) = 2

C8_Witness ==
  /\ call = "erase_bank"
  /\ args.number = 2
  /\ pc = "idle"
  /\ outcome = "True"
  /\ Len(Frames) = 2

\* C9: the first frame of write_memory is 32 CD when 0x32 is among the
\* supported commands and 31 CE otherwise; the first frame of erase_all,
\* erase_bank and erase_pages is 45 BA when 0x45 is among them and 44 BB
\* otherwise.
C9_OpcodeFollowsCapabilities ==
  LET supported == {supported_commands[i] : i \in DOMAIN supported_commands}
  IN  /\ (call = "write_memory" /\ bus # << >>) =>
           /\ IsWrite(bus[1])
           /\ (50 \in supported) => bus[1].bytes = <<50, 205>>
           /\ (50 \notin supported) => bus[1].bytes = <<49, 206>>
      /\ (call \in {"erase_all", "erase_bank", "erase_pages"}
            /\ bus # << >>) =>
           /\ IsWrite(bus[1])
           /\ (69 \in supported) => bus[1].bytes = <<69, 186>>
           /\ (69 \notin supported) => bus[1].bytes = <<68, 187>>
      /\ (call \in {"write_memory", "erase_all"} /\ pc = "idle") =>
           bus # << >>

\* a session that supports 0x32 but not 0x45 has written an erase opcode
C9_Witness ==
  /\ call = "erase_all"
  /\ supported_commands = <<0, 1, 2, 17, 33, 49, 50>>
  /\ bus # << >>
  /\ bus[1].bytes = <<68, 187>>

WaitLabels ==
  {"get_36", "get_39", "get_43", "get_45", "get_version_28",
   "get_version_30", "chip_id_53", "chip_id_56", "read_memory_84",
   "read_memory_87", "read_memory_92", "go_99", "go_102",
   "write_memory_111", "write_memory_114", "write_memory_121",
   "_special_erase_130", "_special_erase_134", "erase_pages_150",
   "erase_pages_154", "erase_pages_161"}

\* C10: while the byte wait_for_ack last read is BUSY it has not returned;
\* when it has returned, the byte it read last is ACK or NACK and its result
\* is True exactly for ACK; when it has raised, that byte is none of BUSY,
\* ACK, NACK.
C10_WaitForAckOutcome ==
  /\ waiting => (pc \in WaitLabels /\ _buf[1] = BUSY)
  /\ (pc \in WaitLabels /\ ~waiting) =>
       /\ _buf[1] \in {ACK, NACK}
       /\ bus[Len(bus)] = StatusEvent(_buf[1])
       /\ ack <=> (_buf[1] = ACK)
  /\ outcome = "RuntimeError" =>
       /\ pc = "dead"
       /\ _buf[1] \notin {BUSY, ACK, NACK}
       /\ bus[Len(bus)] = StatusEvent(_buf[1])
  /\ (pc \in WaitLabels /\ _buf[1] = BUSY) => waiting

\* a handshake that saw BUSY first and then returned True
C10_Witness ==
  /\ pc = "write_memory_114"
  /\ ~waiting
  /\ busy
  /\ ack
  /\ _buf[1] = ACK


\* C11: a status byte that is none of BUSY, ACK, NACK, in any handshake of
\* any method or of __init__, is the last thing the call does on the
\* transport: the call ends there with RuntimeError, not with a result.
C11_ViolationAbortsCommand ==
  \A i \in DOMAIN bus :
    (bus[i].by = "wait_for_ack" /\ bus[i].bytes[1] \notin {ACK, NACK}) =>
      /\ i = Len(bus)
      /\ pc = "dead"
      /\ ~waiting
      /\ outcome = "RuntimeError"

\* erase_pages that met such a byte in its second handshake
C11_Witness ==
  /\ call = "erase_pages"
  /\ outcome = "RuntimeError"
  /\ Len(bus) = 4
  /\ bus[4] = StatusEvent(0)

\* C12: read_memory with count in 1..256 whose opcode and address handshakes
\* ended in ACK sends the frame (count - 1, its complement), waits, reads
\* count bytes and returns exactly the bytes read, in order.
C12_ReadMemoryReturnsBytesRead ==
  (call = "read_memory" /\ args.count \in 1..256 /\ Len(bus) >= 4
     /\ bus[2] = StatusEvent(ACK) /\ bus[4] = StatusEvent(ACK)) =>
    /\ Len(bus) >= 5 =>
         bus[5] = WrittenEvent(<<args.count - 1, 255 - (args.count - 1)>>)
    /\ pc = "idle" =>
         /\ Len(bus) = 7
         /\ bus[6].by = "wait_for_ack"
         /\ bus[7].by = "_read"
         /\ Len(bus[7].bytes) = args.count
         /\ outcome = "bytes"
         /\ ret = bus[7].bytes

\* read_memory(0x08000000, 4) returning AD AF 00 AD
C12_Witness ==
  /\ call = "read_memory"
  /\ args.address = <<2048, 0>>
  /\ args.count = 4
  /\ pc = "idle"
  /\ Len(bus) = 7
  /\ bus[2] = StatusEvent(ACK)
  /\ bus[4] = StatusEvent(ACK)
  /\ bus[6] = StatusEvent(ACK)
  /\ ret = <<173, 175, 0, 173>>


\* What the transport record of __init__ shows of get(): the frames written
\* and the answer the capability list is taken from.
IsGetFrame(e) == e = WrittenEvent(<<0, 255>>)

GetRounds == Len(SelectSeq(bus, IsGetFrame))

\* C14: __init__ writes the get frame (0x00, 0xFF) exactly twice; the first
\* round reads one byte, the length; the second reads length + 2 bytes, and
\* supported_commands is that second answer less its first two bytes; no
\* step after that assignment changes supported_commands.
C14_CapabilitiesFromSecondRound ==
  /\ [](/\ call = "__init__" => GetRounds <= 2
        /\ (call = "__init__" /\ Len(bus) >= 9) =>
             /\ GetRounds = 2
             /\ IsGetFrame(bus[1])
             /\ bus[3].by = "_read"
             /\ bus[3].bytes = <<args.length>>
             /\ IsGetFrame(bus[5])
             /\ bus[7].by = "_read"
             /\ Len(bus[7].bytes) = args.length + 2
             /\ supported_commands = Tail2(bus[7].bytes, 2))
  /\ [][pc # "get_45" => supported_commands' = supported_commands]_vars

\* A session constructed from the length byte 9 and an eleven-byte answer
C14_Witness ==
  /\ call = "__init__"
  /\ pc = "idle"
  /\ args.length = 9
  /\ bus[7] = ReadEvent(<<9, 18, 0, 1, 2, 17, 33, 49, 50, 68, 69>>)
  /\ supported_commands = <<0, 1, 2, 17, 33, 49, 50, 68, 69>>

\* C17: every frame written is followed by a handshake that reaches ACK,
\* NACK or a violation before anything else is written: a written frame is
\* either the last event with the handshake still polling, or the event
\* after it is a non-BUSY status; a frame is written only when no handshake
\* is open and the previous event is not a write; and no frame is written
\* again right after the status that answered it.
C17_HandshakeAfterEveryFrame ==
  /\ [](/\ \A i \in DOMAIN bus :
             IsWrite(bus[i]) =>
               IF i = Len(bus) THEN waiting
               ELSE /\ bus[i + 1].by = "wait_for_ack"
                    /\ bus[i + 1].bytes[1] # BUSY
        /\ \A i \in DOMAIN bus :
             (i + 2 <= Len(bus) /\ IsWrite(bus[i]) /\ IsWrite(bus[i + 2])) =>
               bus[i + 2] # bus[i]
        /\ pc = "idle" => ~waiting)
  /\ [][(bus' # << >> /\ bus' # bus /\ IsWrite(bus'[Len(bus')])) =>
          /\ ~waiting
          /\ bus # << >> => ~IsWrite(bus[Len(bus)])]_vars

\* write_memory after its third frame was answered
C17_Witness ==
  /\ call = "write_memory"
  /\ pc = "idle"
  /\ Len(Frames) = 3
  /\ Len(bus) = 6
  /\ bus[6].by = "wait_for_ack"

\* C19: the buffer always has its 258 bytes and every place the methods
\* index or slice stays inside it for accepted inputs: no IndexError comes
\* from write_memory with 1..256 data bytes or from anything else, the
\* checksum positions of write_memory and erase_pages (1..128 pages) are
\* positions of the buffer, and what _read hands back (read_memory with
\* count 1..256, get with any length byte) has the length asked for.
C19_BufferIndexesInRange ==
  /\ DOMAIN _buf = 1..BufSize
  /\ outcome = "IndexError" =>
       (call = "write_memory" /\ Len(args.data) \notin 1..256)
  /\ (call = "write_memory" /\ Len(args.data) \in 1..256
        /\ pc = "write_memory_121") =>
       /\ (Len(args.data) + 1) + 1 \in DOMAIN _buf
       /\ Len(Frames[3].bytes) = Min(Len(args.data) + 2, WriteEnd)
  /\ (call = "erase_pages" /\ Len(args.pages) \in 1..128
        /\ pc = "erase_pages_161") =>
       /\ 2 * Len(args.pages) + 1 \in DOMAIN _buf
       /\ Len(Frames[3].bytes) = 2 * Len(args.pages)
  /\ (call = "read_memory" /\ args.count \in 1..256 /\ outcome = "bytes"
        /\ Len(bus) = 7) =>
       /\ Len(bus[7].bytes) <= BufSize
       /\ Len(ret) = args.count
  /\ (call = "__init__" /\ Len(bus) >= 7) =>
       /\ Len(bus[7].bytes) <= BufSize
       /\ Len(args.b) = args.length + 2

\* write_memory with 256 data bytes that got its data frame out
C19_Witness ==
  /\ call = "write_memory"
  /\ Len(args.data) = 256
  /\ pc = "write_memory_121"
  /\ Len(Frames) = 3


\* C15: _checksum of a single byte b is (~b) & 0xFF, that is 255 - b, and of
\* two or more bytes it is the XOR of all of them.
C15_ChecksumValue ==
  pc = "checksum_76" =>
    ret = <<IF Len(args.data) = 1 THEN 255 - args.data[1]
            ELSE XorAll(args.data)>>

\* the checksum of the single byte 1, and of a three-byte string
C15_Witness ==
  /\ pc = "checksum_76"
  /\ \/ args.data = <<1>> /\ ret = <<254>>
     \/ args.data = <<1, 128, 255>> /\ ret = <<126>>

\* C16: after _pack_address(address) the first four bytes of the buffer
\* read big-endian are the address and the fifth is the XOR of those four;
\* the frame written with end=5 right after is those five bytes.
C16_PackedAddressFrame ==
  /\ pc \in {"pack_address_80", "write_address_86"} =>
       /\ _buf[1] * 256 + _buf[2] = args.address[1]
       /\ _buf[3] * 256 + _buf[4] = args.address[2]
       /\ _buf[5] = XorAll(<<_buf[1], _buf[2], _buf[3], _buf[4]>>)
  /\ pc = "write_address_86" =>
       bus = <<WrittenEvent(<<_buf[1], _buf[2], _buf[3], _buf[4], _buf[5]>>)>>

\* the frames of 0x08000000 and of 0xFFFFFFFF
C16_Witness ==
  /\ pc = "write_address_86"
  /\ \/ /\ args.address = <<2048, 0>>
        /\ bus[1].bytes = <<8, 0, 0, 0, 8>>
     \/ /\ args.address = <<65535, 65535>>
        /\ bus[1].bytes = <<255, 255, 255, 255, 0>>


\* the identifier a chip_id answer carries: its last two bytes, big-endian
IdOf(answer) == answer[2] * 256 + answer[3]

\* C13: a chip_id call that asked the device stores and returns the 16-bit
\* value of the last two of the three bytes read; a stored non-zero
\* identifier is never changed again; and a chip_id call made while one is
\* stored returns it at once with nothing written to or read from the
\* transport, whatever was called before it.
C13_ChipIdMemoized ==
  /\ [](( call = "chip_id" /\ pc = "idle" /\ bus # << >>) =>
          /\ bus[3].by = "_read"
          /\ Len(bus[3].bytes) = 3
          /\ _chip_id = IdOf(bus[3].bytes)
          /\ ret = <<_chip_id>>)
  /\ [][_chip_id # 0 => _chip_id' = _chip_id]_vars
  /\ [][(_chip_id # 0 /\ calls' = calls + 1 /\ call' = "chip_id") =>
          /\ pc' = "idle"
          /\ ~waiting'
          /\ bus' = << >>
          /\ outcome' = "int"
          /\ ret' = <<_chip_id>>]_vars

\* the third call of a session is a chip_id answered from the stored 0x0413,
\* with the bytes of a read_memory made after the query still in the buffer
C13_Witness ==
  /\ calls = 3
  /\ call = "chip_id"
  /\ pc = "idle"
  /\ bus = << >>
  /\ ret = <<1043>>
  /\ _buf[2] = 175
  /\ _buf[4] = 173

\* C18: under the assumption that the device does not answer BUSY for ever
\* and the method keeps running, every call, and __init__, comes to its
\* return or its exception; a BUSY answer leaves the handshake polling with
\* nothing else changed, however many came before; and a handshake ends
\* only on a byte other than BUSY.
C18_TerminatesOnNonBusy ==
  /\ (pc \notin {"idle", "dead"}) ~> (pc \in {"idle", "dead"})
  /\ [][(waiting /\ _buf'[1] = BUSY) =>
          /\ waiting'
          /\ pc' = pc
          /\ bus' = bus
          /\ outcome' = outcome
          /\ ret' = ret]_vars
  /\ [][(waiting /\ ~waiting') => _buf'[1] # BUSY]_vars

\* erase_all has returned, its last handshake having seen BUSY before the
\* byte that ended it
C18_Witness ==
  /\ call = "erase_all"
  /\ pc = "idle"
  /\ busy
  /\ bus[Len(bus)].by = "wait_for_ack"

\* what the memoryview handed back by line 165 shows now: the first
\* Len(ret) bytes of the buffer
ReturnedView == Slice(_buf, Len(ret))

\* C20: the bytes a successful read_memory returned keep the values read
\* from the device: the step after the return, which starts the next call,
\* leaves the returned bytes as they were.
C20_ReturnedBytesKeepValues ==
  [][(call = "read_memory" /\ pc = "idle" /\ outcome = "bytes"
        /\ ret # << >>) =>
       Slice(_buf', Len(ret)) = ret]_vars

====
